---- MODULE Spec2Model ----
(***************************************************************************)
(* The cube of cube.py: six Sides, each a 3x3 grid of Tiles with four      *)
(* bound neighbour accessors, and a Cube that owns them, maps the six      *)
(* roles to them (layout) and turns them.                                  *)
(***************************************************************************)
EXTENDS Integers, Sequences, FiniteSets, TLC

\* ------------------------------------------------------------ bounds
\* Longest sequence of turns and reorientations applied to one cube.
MaxSteps == 3
\* Longest such sequence when the cube starts from arbitrary grid contents.
MaxAnySteps == 1
\* Largest n_moves given to mix.
MaxMix == 2
\* mix is called only on cubes that have made at most this many steps.
MaxMixFrom == 1
\* get_gs is looked up only on cubes that have made at most this many steps.
MaxGsSteps == 0
\* Longest recorded scramble that is replayed backwards.
MaxScramble == 50
\* The first turns of a recorded scramble are any turns; the later ones follow
\* the one before them in a fixed round of the twelve.
MaxFree == 1

\* ------------------------------------------------------------ Tile
Colours == {"RED", "GREEN", "BLUE", "YELLOW", "WHITE", "ORANGE"}

Tile == Colours \cup {"UNSET"}

\* ------------------------------------------------------------ Side
Idx == 0 .. 2

Faces == 0 .. 5

Dirs == {"top", "left", "bottom", "right"}

\* Side.__init__: tiles = [[tile] * 3, [tile] * 3, [tile] * 3]
SideInit(tile) == [r \in Idx |-> [c \in Idx |-> tile]]

\* insert[::-1] on a list of three
Reversed(l) == [i \in Idx |-> l[2 - i]]

get_top(t) == t[0]

get_bottom(t) == Reversed(t[2])

get_left(t) == [i \in Idx |-> Reversed(t)[i][0]]

get_right(t) == [i \in Idx |-> t[i][2]]

_set_top(t, insert) == [t EXCEPT ![0] = insert]

\* _set_bottom without the [::-1].
SetBottomUnreversed(t, insert) == [t EXCEPT ![2] = insert]

_set_bottom(t, insert) == [t EXCEPT ![2] = Reversed(insert)]

_set_left(t, insert) ==
    LET t1 == [t EXCEPT ![2][0] = insert[0]]
        t2 == [t1 EXCEPT ![1][0] = insert[1]]
    IN  [t2 EXCEPT ![0][0] = insert[2]]

\* _set_right writing the middle column.
SetRightMiddleColumn(t, insert) ==
    LET t1 == [t EXCEPT ![0][1] = insert[0]]
        t2 == [t1 EXCEPT ![1][1] = insert[1]]
    IN  [t2 EXCEPT ![2][1] = insert[2]]

_set_right(t, insert) ==
    LET t1 == [t EXCEPT ![0][2] = insert[0]]
        t2 == [t1 EXCEPT ![1][2] = insert[1]]
    IN  [t2 EXCEPT ![2][2] = insert[2]]

\* What get_gs does with a token: a (getter, setter) pair bound to `side` for
\* one of the four directions, exit(1) for anything else.  A bound pair is
\* modelled by the side it is bound to and the edge it reads and writes.
get_gs(side, token) ==
    IF token \in Dirs
    THEN [kind |-> "accessors", side |-> side, edge |-> token]
    ELSE [kind |-> "exit", code |-> 1]

\* Calling a bound getter / setter on the grids g (one per side).
Getter(g, b) ==
    CASE b.edge = "top" -> get_top(g[b.side])
      [] b.edge = "left" -> get_left(g[b.side])
      [] b.edge = "bottom" -> get_bottom(g[b.side])
      [] b.edge = "right" -> get_right(g[b.side])

Setter(g, b, insert) ==
    CASE b.edge = "top" -> [g EXCEPT ![b.side] = _set_top(g[b.side], insert)]
      [] b.edge = "left" -> [g EXCEPT ![b.side] = _set_left(g[b.side], insert)]
      [] b.edge = "bottom" -> [g EXCEPT ![b.side] = _set_bottom(g[b.side], insert)]
      [] b.edge = "right" -> [g EXCEPT ![b.side] = _set_right(g[b.side], insert)]

\* r_left not saving bottom: the right column is written from the bottom row
\* that _set_bottom has already overwritten.
RLeftBottomNotSaved(g, n, s) ==
    LET right == get_right(g[s])
        top == get_top(g[s])
        o1 == _set_bottom(g[s], get_left(g[s]))
        o2 == _set_top(o1, right)
        o3 == _set_right(o2, get_bottom(o2))
        o4 == _set_left(o3, top)
        g0 == [g EXCEPT ![s] = o4]
        left == Getter(g0, n[s].left)
        g1 == Setter(g0, n[s].left, Getter(g0, n[s].top))
        g2 == Setter(g1, n[s].top, Getter(g1, n[s].right))
        g3 == Setter(g2, n[s].right, Getter(g2, n[s].bottom))
    IN  Setter(g3, n[s].bottom, left)

\* Side.r_left on side s of the grids g with the bindings n: first the own
\* grid, statement by statement, then the four neighbour strips.
r_left(g, n, s) ==
    LET right == get_right(g[s])
        top == get_top(g[s])
        bottom == get_bottom(g[s])
        o1 == _set_bottom(g[s], get_left(g[s]))
        o2 == _set_top(o1, right)
        o3 == _set_right(o2, bottom)
        o4 == _set_left(o3, top)
        g0 == [g EXCEPT ![s] = o4]
        left == Getter(g0, n[s].left)
        g1 == Setter(g0, n[s].left, Getter(g0, n[s].top))
        g2 == Setter(g1, n[s].top, Getter(g1, n[s].right))
        g3 == Setter(g2, n[s].right, Getter(g2, n[s].bottom))
    IN  Setter(g3, n[s].bottom, left)

\* r_right writing the top strip from the left strip it has just overwritten.
RRightLeftNotSaved(g, n, s) ==
    LET left == get_left(g[s])
        o1 == _set_left(g[s], get_bottom(g[s]))
        o2 == _set_bottom(o1, get_right(o1))
        o3 == _set_right(o2, get_top(o2))
        o4 == _set_top(o3, left)
        g0 == [g EXCEPT ![s] = o4]
        g1 == Setter(g0, n[s].left, Getter(g0, n[s].bottom))
        g2 == Setter(g1, n[s].bottom, Getter(g1, n[s].right))
        g3 == Setter(g2, n[s].right, Getter(g2, n[s].top))
    IN  Setter(g3, n[s].top, Getter(g3, n[s].left))

\* r_right turning the own grid only three quarters of the way: the last
\* write, of the saved left column to the top row, is missing.
RRightTopNotWritten(g, n, s) ==
    LET o1 == _set_left(g[s], get_bottom(g[s]))
        o2 == _set_bottom(o1, get_right(o1))
        o3 == _set_right(o2, get_top(o2))
        g0 == [g EXCEPT ![s] = o3]
        nleft == Getter(g0, n[s].left)
        g1 == Setter(g0, n[s].left, Getter(g0, n[s].bottom))
        g2 == Setter(g1, n[s].bottom, Getter(g1, n[s].right))
        g3 == Setter(g2, n[s].right, Getter(g2, n[s].top))
    IN  Setter(g3, n[s].top, nleft)

\* Side.r_right, likewise.
r_right(g, n, s) ==
    LET left == get_left(g[s])
        o1 == _set_left(g[s], get_bottom(g[s]))
        o2 == _set_bottom(o1, get_right(o1))
        o3 == _set_right(o2, get_top(o2))
        o4 == _set_top(o3, left)
        g0 == [g EXCEPT ![s] = o4]
        nleft == Getter(g0, n[s].left)
        g1 == Setter(g0, n[s].left, Getter(g0, n[s].bottom))
        g2 == Setter(g1, n[s].bottom, Getter(g1, n[s].right))
        g3 == Setter(g2, n[s].right, Getter(g2, n[s].top))
    IN  Setter(g3, n[s].top, nleft)

\* ------------------------------------------------------------ order
\* The reads and writes a rotation makes, in the order of its statements.
\* A read calls a getter, a write calls a setter with the value that the
\* read number `from` of the same rotation returned; an argument is read
\* before the call that takes it is made.
Rd(b) == [act |-> "read", at |-> [side |-> b.side, edge |-> b.edge], from |-> 0]

Wr(b, k) == [act |-> "write", at |-> [side |-> b.side, edge |-> b.edge], from |-> k]

Self(s, d) == [side |-> s, edge |-> d]

\* Side.r_left: right, top and bottom are saved, then _set_bottom(get_left()),
\* _set_top(right), _set_right(bottom), _set_left(top); then left = left_g(),
\* left_s(top_g()), top_s(right_g()), right_s(bottom_g()), bottom_s(left).
r_left_events(n, s) ==
    << Rd(Self(s, "right")), Rd(Self(s, "top")), Rd(Self(s, "bottom")),
       Rd(Self(s, "left")), Wr(Self(s, "bottom"), 4),
       Wr(Self(s, "top"), 1), Wr(Self(s, "right"), 3), Wr(Self(s, "left"), 2),
       Rd(n[s].left),
       Rd(n[s].top), Wr(n[s].left, 10),
       Rd(n[s].right), Wr(n[s].top, 12),
       Rd(n[s].bottom), Wr(n[s].right, 14),
       Wr(n[s].bottom, 9) >>

\* r_right writing the left neighbour strip before it saves it.
RRightEventsLeftSavedLate(n, s) ==
    << Rd(Self(s, "left")),
       Rd(Self(s, "bottom")), Wr(Self(s, "left"), 2),
       Rd(Self(s, "right")), Wr(Self(s, "bottom"), 4),
       Rd(Self(s, "top")), Wr(Self(s, "right"), 6),
       Wr(Self(s, "top"), 1),
       Rd(n[s].bottom), Wr(n[s].left, 9),
       Rd(n[s].left),
       Rd(n[s].right), Wr(n[s].bottom, 12),
       Rd(n[s].top), Wr(n[s].right, 14),
       Wr(n[s].top, 11) >>

\* Side.r_right: left is saved, then _set_left(get_bottom()),
\* _set_bottom(get_right()), _set_right(get_top()), _set_top(left); then
\* left = left_g(), left_s(bottom_g()), bottom_s(right_g()),
\* right_s(top_g()), top_s(left).
r_right_events(n, s) ==
    << Rd(Self(s, "left")),
       Rd(Self(s, "bottom")), Wr(Self(s, "left"), 2),
       Rd(Self(s, "right")), Wr(Self(s, "bottom"), 4),
       Rd(Self(s, "top")), Wr(Self(s, "right"), 6),
       Wr(Self(s, "top"), 1),
       Rd(n[s].left),
       Rd(n[s].bottom), Wr(n[s].left, 10),
       Rd(n[s].right), Wr(n[s].bottom, 12),
       Rd(n[s].top), Wr(n[s].right, 14),
       Wr(n[s].top, 9) >>

\* Making the reads and writes ev on the grids g, from number i on, vals
\* holding what the reads so far returned.
RECURSIVE ExecFrom(_, _, _, _)
ExecFrom(g, ev, i, vals) ==
    IF i > Len(ev) THEN g
    ELSE IF ev[i].act = "read"
         THEN ExecFrom(g, ev, i + 1, Append(vals, Getter(g, ev[i].at)))
         ELSE ExecFrom(Setter(g, ev[i].at, vals[ev[i].from]), ev, i + 1,
                       Append(vals, <<>>))

Exec(g, ev) == ExecFrom(g, ev, 1, <<>>)

\* ------------------------------------------------------------ Cube
Roles == {"left", "right", "back", "front", "down", "up"}

\* Cube.__init__: the six sides, by index.
BaseColour ==
    [i \in Faces |->
        CASE i = 0 -> "ORANGE" [] i = 1 -> "RED" [] i = 2 -> "GREEN"
          [] i = 3 -> "BLUE" [] i = 4 -> "WHITE" [] i = 5 -> "YELLOW"]

SolvedSides == [i \in Faces |-> SideInit(BaseColour[i])]

\* The layout with sides 2 and 3 the other way round.
InitLayoutFrontIsTwo ==
    [r \in Roles |->
        CASE r = "left" -> 0 [] r = "right" -> 1 [] r = "back" -> 3
          [] r = "front" -> 2 [] r = "down" -> 4 [] r = "up" -> 5]

\* Cube.__init__: the layout.
InitLayout ==
    [r \in Roles |->
        CASE r = "left" -> 0 [] r = "right" -> 1 [] r = "back" -> 2
          [] r = "front" -> 3 [] r = "down" -> 4 [] r = "up" -> 5]

\* Cube.__init__: the 24 set_*_n(*sides[j].get_gs(d)) calls.
InitNbr ==
    [i \in Faces |->
        CASE i = 0 -> [top |-> get_gs(2, "left"), left |-> get_gs(4, "left"),
                       bottom |-> get_gs(3, "left"), right |-> get_gs(5, "left")]
          [] i = 5 -> [top |-> get_gs(2, "bottom"), left |-> get_gs(0, "right"),
                       bottom |-> get_gs(3, "top"), right |-> get_gs(1, "left")]
          [] i = 1 -> [top |-> get_gs(2, "right"), left |-> get_gs(5, "right"),
                       bottom |-> get_gs(3, "right"), right |-> get_gs(4, "right")]
          [] i = 2 -> [top |-> get_gs(4, "bottom"), left |-> get_gs(0, "top"),
                       bottom |-> get_gs(5, "top"), right |-> get_gs(1, "top")]
          [] i = 3 -> [top |-> get_gs(5, "bottom"), left |-> get_gs(0, "bottom"),
                       bottom |-> get_gs(4, "top"), right |-> get_gs(1, "bottom")]
          [] i = 4 -> [top |-> get_gs(3, "bottom"), left |-> get_gs(0, "left"),
                       bottom |-> get_gs(2, "top"), right |-> get_gs(1, "right")]]

\* A cube value: the grids of its sides, its layout and its bindings.
NewCube == [sides |-> SolvedSides, layout |-> InitLayout, nbr |-> InitNbr]

\* The twelve quarter-turns.
U(c) == [c EXCEPT !.sides = r_right(c.sides, c.nbr, c.layout["up"])]

U_(c) == [c EXCEPT !.sides = r_left(c.sides, c.nbr, c.layout["up"])]

\* D turning the side of another role.
DTurnsFront(c) == [c EXCEPT !.sides = r_right(c.sides, c.nbr, c.layout["front"])]

D(c) == [c EXCEPT !.sides = r_right(c.sides, c.nbr, c.layout["down"])]

D_(c) == [c EXCEPT !.sides = r_left(c.sides, c.nbr, c.layout["down"])]

L(c) == [c EXCEPT !.sides = r_right(c.sides, c.nbr, c.layout["left"])]

\* L_ writing the side it turned into the layout as left and front.
LPrimeRelabels(c) ==
    [c EXCEPT !.sides = r_left(c.sides, c.nbr, c.layout["left"]),
              !.layout["front"] = c.layout["left"]]

L_(c) == [c EXCEPT !.sides = r_left(c.sides, c.nbr, c.layout["left"])]

R(c) == [c EXCEPT !.sides = r_right(c.sides, c.nbr, c.layout["right"])]

R_(c) == [c EXCEPT !.sides = r_left(c.sides, c.nbr, c.layout["right"])]

F(c) == [c EXCEPT !.sides = r_right(c.sides, c.nbr, c.layout["front"])]

F_(c) == [c EXCEPT !.sides = r_left(c.sides, c.nbr, c.layout["front"])]

B(c) == [c EXCEPT !.sides = r_right(c.sides, c.nbr, c.layout["back"])]

B_(c) == [c EXCEPT !.sides = r_left(c.sides, c.nbr, c.layout["back"])]

\* rLeft without tmp_side: front is given left after left was overwritten.
RLeftNoTmp(c) ==
    LET l1 == [c.layout EXCEPT !["left"] = c.layout["back"]]
        l2 == [l1 EXCEPT !["back"] = l1["right"]]
        l3 == [l2 EXCEPT !["right"] = l2["front"]]
    IN  [c EXCEPT !.layout = [l3 EXCEPT !["front"] = l3["left"]]]

\* rLeft cycling the four roles the way rRight does.
RLeftOtherWay(c) ==
    LET tmp_side == c.layout["right"]
        l1 == [c.layout EXCEPT !["right"] = c.layout["back"]]
        l2 == [l1 EXCEPT !["back"] = l1["left"]]
        l3 == [l2 EXCEPT !["left"] = l2["front"]]
    IN  [c EXCEPT !.layout = [l3 EXCEPT !["front"] = tmp_side]]

\* The two reorientations: the four assignments in order, through tmp_side.
rLeft(c) ==
    LET tmp_side == c.layout["left"]
        l1 == [c.layout EXCEPT !["left"] = c.layout["back"]]
        l2 == [l1 EXCEPT !["back"] = l1["right"]]
        l3 == [l2 EXCEPT !["right"] = l2["front"]]
    IN  [c EXCEPT !.layout = [l3 EXCEPT !["front"] = tmp_side]]

rRight(c) ==
    LET tmp_side == c.layout["right"]
        l1 == [c.layout EXCEPT !["right"] = c.layout["back"]]
        l2 == [l1 EXCEPT !["back"] = l1["left"]]
        l3 == [l2 EXCEPT !["left"] = l2["front"]]
    IN  [c EXCEPT !.layout = [l3 EXCEPT !["front"] = tmp_side]]

\* Cube.mix: moves, in the order of the list.
MoveNames == {"U", "U_", "D", "D_", "F", "F_", "B", "B_", "L", "L_", "R", "R_"}

ReorientNames == {"rLeft", "rRight"}

\* Calling the method of that name.
Call(c, m) ==
    CASE m = "U" -> U(c) [] m = "U_" -> U_(c)
      [] m = "D" -> D(c) [] m = "D_" -> D_(c)
      [] m = "L" -> L(c) [] m = "L_" -> L_(c)
      [] m = "R" -> R(c) [] m = "R_" -> R_(c)
      [] m = "F" -> F(c) [] m = "F_" -> F_(c)
      [] m = "B" -> B(c) [] m = "B_" -> B_(c)
      [] m = "rLeft" -> rLeft(c) [] m = "rRight" -> rRight(c)

\* The role a quarter-turn resolves and the rotation it calls on its side.
TurnOf(m) ==
    CASE m = "U" -> <<"up", "r_right">> [] m = "U_" -> <<"up", "r_left">>
      [] m = "D" -> <<"down", "r_right">> [] m = "D_" -> <<"down", "r_left">>
      [] m = "L" -> <<"left", "r_right">> [] m = "L_" -> <<"left", "r_left">>
      [] m = "R" -> <<"right", "r_right">> [] m = "R_" -> <<"right", "r_left">>
      [] m = "F" -> <<"front", "r_right">> [] m = "F_" -> <<"front", "r_left">>
      [] m = "B" -> <<"back", "r_right">> [] m = "B_" -> <<"back", "r_left">>

\* The reads and writes quarter-turn m makes on the cube c.
MoveEvents(c, m) ==
    IF TurnOf(m)[2] = "r_right"
    THEN r_right_events(c.nbr, c.layout[TurnOf(m)[1]])
    ELSE r_left_events(c.nbr, c.layout[TurnOf(m)[1]])

\* Calling the methods of a list one after the other.
RECURSIVE CallAll(_, _)
CallAll(c, ms) ==
    IF ms = <<>> THEN c ELSE CallAll(Call(c, Head(ms)), Tail(ms))

\* mix(n_moves) with the choices the random source made: choice(moves)()
\* for each.
mix(c, choices) == CallAll(c, choices)

\* The inverse of a quarter-turn, by name.
Inverse(m) ==
    CASE m = "U" -> "U_" [] m = "U_" -> "U"
      [] m = "D" -> "D_" [] m = "D_" -> "D"
      [] m = "L" -> "L_" [] m = "L_" -> "L"
      [] m = "R" -> "R_" [] m = "R_" -> "R"
      [] m = "F" -> "F_" [] m = "F_" -> "F"
      [] m = "B" -> "B_" [] m = "B_" -> "B"

\* The moves of mix, in the order of its list.
MoveList ==
    <<"U", "U_", "D", "D_", "F", "F_", "B", "B_", "L", "L_", "R", "R_">>

\* The named inverses of a recorded sequence of quarter-turns, last first.
Undo(h) == [i \in 1 .. Len(h) |-> Inverse(h[Len(h) + 1 - i])]

\* The turn that follows m in the round a recorded scramble goes through: the
\* fifth after it in the list, so that the round takes in all twelve and no
\* turn is followed by its inverse.
Follows(m) ==
    LET i == CHOOSE k \in 1 .. 12 : MoveList[k] = m
    IN  MoveList[((i + 4) % 12) + 1]

\* ------------------------------------------------------------ state
VARIABLES
    sides,      \* sides[i]: the tiles of Cube.sides[i]
    layout,     \* Cube.layout, role -> index of the side
    nbr,        \* nbr[i][d]: what side i's d_g / d_s are bound to
    proc,       \* "running", or "exited" once exit() was called
    last,       \* the call made last: what it was given, did and returned
    hist,       \* the turns and reorientations made and recorded, in order
    start,      \* the grids and layout the run began with
    replay      \* whether the record is being undone, and the turns still to make

vars == <<sides, layout, nbr, proc, last, hist, start, replay>>

Cur == [sides |-> sides, layout |-> layout, nbr |-> nbr]

NoCall == [op |-> "none"]

\* The layouts the reorientations reach from the constructor's.
Layouts ==
    {InitLayout, rLeft(NewCube).layout, rLeft(rLeft(NewCube)).layout,
     rRight(NewCube).layout}

\* A grid set with one tile of another colour than the rest.
OneHot(f, r, c) ==
    [i \in Faces |-> [x \in Idx |-> [y \in Idx |->
        IF i = f /\ x = r /\ y = c THEN "RED" ELSE "WHITE"]]]

AnySides ==
    {SolvedSides} \cup {OneHot(f, r, c) : f \in Faces, r \in Idx, c \in Idx}

\* After Cube().
Init ==
    /\ sides = SolvedSides
    /\ layout = InitLayout
    /\ nbr = InitNbr
    /\ proc = "running"
    /\ last = NoCall
    /\ hist = <<>>
    /\ start = [sides |-> sides, layout |-> layout]
    /\ replay = [on |-> FALSE, todo |-> <<>>]

\* A cube whose grids were filled by hand, under any layout.
InitAny ==
    /\ sides \in AnySides
    /\ layout \in Layouts
    /\ nbr = InitNbr
    /\ proc = "running"
    /\ last = NoCall
    /\ hist = <<>>
    /\ start = [sides |-> sides, layout |-> layout]
    /\ replay = [on |-> FALSE, todo |-> <<>>]

Becomes(c) ==
    /\ sides' = c.sides
    /\ layout' = c.layout
    /\ nbr' = c.nbr

\* One of the twelve quarter-turns.
Move(limit) ==
    /\ proc = "running"
    /\ ~replay.on
    /\ Len(hist) < limit
    /\ \E m \in MoveNames :
        /\ Becomes(Call(Cur, m))
        /\ last' = [op |-> m, events |-> MoveEvents(Cur, m)]
        /\ hist' = Append(hist, m)
    /\ UNCHANGED <<proc, start, replay>>

\* rLeft or rRight.
Reorient(limit) ==
    /\ proc = "running"
    /\ Len(hist) < limit
    /\ \E m \in ReorientNames :
        /\ Becomes(Call(Cur, m))
        /\ last' = [op |-> m]
        /\ hist' = Append(hist, m)
    /\ UNCHANGED <<proc, start, replay>>

\* mix(n), the random source choosing `choices`.
Mix(from, limit) ==
    /\ proc = "running"
    /\ Len(hist) <= from
    /\ \E n \in 0 .. MaxMix :
        /\ Len(hist) + n <= limit
        /\ \E choices \in [1 .. n -> MoveNames] :
            /\ Becomes(mix(Cur, choices))
            /\ last' = [op |-> "mix", n |-> n]
            /\ hist' = hist \o choices
    /\ UNCHANGED <<proc, start, replay>>

Tokens == Dirs \cup {"middle"}

\* sides[i].get_gs(token): the pair is returned, or exit(1) ends the process.
GetGs ==
    /\ proc = "running"
    /\ Len(hist) <= MaxGsSteps
    /\ \E i \in Faces, token \in Tokens :
        LET got == get_gs(i, token)
        IN  /\ last' = [op |-> "get_gs", token |-> token, got |-> got]
            /\ proc' = IF got.kind = "exit" THEN "exited" ELSE proc
    /\ UNCHANGED <<sides, layout, nbr, hist, start, replay>>

\* A turn of a scramble that is being recorded.
Scramble ==
    /\ Move(MaxScramble)
    /\ Len(hist) >= MaxFree => hist'[Len(hist')] = Follows(hist[Len(hist)])

\* The caller turns to undoing the record: the named inverses, last first.
BeginReplay ==
    /\ proc = "running"
    /\ ~replay.on
    /\ hist # <<>>
    /\ replay' = [on |-> TRUE, todo |-> Undo(hist)]
    /\ UNCHANGED <<sides, layout, nbr, proc, last, hist, start>>

\* The next turn of the replay.
ReplayStep ==
    /\ proc = "running"
    /\ replay.on
    /\ replay.todo # <<>>
    /\ Becomes(Call(Cur, Head(replay.todo)))
    /\ last' = [op |-> Head(replay.todo),
                events |-> MoveEvents(Cur, Head(replay.todo))]
    /\ replay' = [replay EXCEPT !.todo = Tail(replay.todo)]
    /\ UNCHANGED <<proc, hist, start>>

Next ==
    \/ Move(MaxSteps)
    \/ Reorient(MaxSteps)
    \/ Mix(MaxMixFrom, MaxSteps)
    \/ GetGs

NextAny ==
    \/ Move(MaxAnySteps)
    \/ Reorient(MaxAnySteps)

Spec == Init /\ [][Next]_vars

SpecAny == InitAny /\ [][NextAny]_vars

NextScramble ==
    \/ Scramble
    \/ BeginReplay
    \/ ReplayStep

SpecScramble == Init /\ [][NextScramble]_vars

\* ------------------------------------------------------------ claims
\* How many tiles of the grids g show colour col.
Count(g, col) ==
    Cardinality({p \in Faces \X Idx \X Idx : g[p[1]][p[2]][p[3]] = col})

\* The distinct colours side f of the grids g shows.
Shown(g, f) == {g[f][r][c] : r \in Idx, c \in Idx}

\* The names of hist, as a set.
Made == {hist[i] : i \in 1 .. Len(hist)}

\* C1: in every state reached from Cube() by quarter-turns and
\* reorientations, the 54 tiles are nine of each of the six colours, and no
\* tile is UNSET.
C1_NineOfEach ==
    /\ \A col \in Colours : Count(sides, col) = 9
    /\ Count(sides, "UNSET") = 0

\* C1's case: turns around a reorientation have scrambled a side.
C1_Witness ==
    /\ Len(hist) >= 3
    /\ last.op \in MoveNames
    /\ "rLeft" \in Made
    /\ \E f \in Faces : Cardinality(Shown(sides, f)) >= 3

\* C2: whatever the grids hold and under any layout, a quarter-turn followed
\* by its named inverse (X then X_, and X_ then X) leaves every tile of the
\* six grids as it was.
C2_TurnThenInverse ==
    \A m \in MoveNames : Call(Call(Cur, m), Inverse(m)) = Cur

\* C2's case: F was made on a hand-filled cube under a turned layout and moved
\* the marked tile; F_ from here gives back the grids the run began with.
C2_Witness ==
    /\ hist = <<"F">>
    /\ start.sides \in AnySides \ {SolvedSides}
    /\ start.layout # InitLayout
    /\ sides # start.sides
    /\ F_(Cur).sides = start.sides

\* C3: whatever the grids hold, a quarter-turn made four times in a row
\* leaves the six grids and the layout as they were before the first.
C3_FourTimes ==
    \A m \in MoveNames : CallAll(Cur, <<m, m, m, m>>) = Cur

\* C3's case: L_ was made on a hand-filled cube and moved the marked tile,
\* a second L_ does not bring it back, and the fourth does.
C3_Witness ==
    /\ hist = <<"L_">>
    /\ start.sides \in AnySides \ {SolvedSides}
    /\ sides # start.sides
    /\ L_(Cur).sides # start.sides
    /\ L_(L_(L_(Cur))).sides = start.sides
    /\ L_(L_(L_(Cur))).layout = start.layout
\* The edge that follows d on the clockwise walk the four getters make of a
\* grid's border: the top row left to right, the right column downwards,
\* the bottom row right to left, the left column upwards.
NextDir(d) ==
    CASE d = "top" -> "right" [] d = "right" -> "bottom"
      [] d = "bottom" -> "left" [] d = "left" -> "top"

\* Grids whose tiles hold their own place <<side, row, column>>: a getter
\* applied to them tells which tiles it reads, in its order.
Places == [f \in Faces |-> [r \in Idx |-> [c \in Idx |-> <<f, r, c>>]]]

Own(f, d) == [side |-> f, edge |-> d]

\* The glue of the bindings Cube.__init__ makes: edge d of side f lies against
\* the strip that the binding of (f, d) reads, and since both strips are
\* walked clockwise on their own sides they run against each other, tile i
\* against tile 2 - i.  An edge piece is the middle tile of an edge and the
\* tile against it; a corner piece is the last tile of an edge (the first of
\* the next edge), the tile against it across the edge, and the tile against
\* it across the next edge.
EdgePlaces(f, d) ==
    <<Getter(Places, Own(f, d))[1], Getter(Places, InitNbr[f][d])[1]>>

CornerPlaces(f, d) ==
    <<Getter(Places, Own(f, d))[2],
      Getter(Places, InitNbr[f][d])[0],
      Getter(Places, InitNbr[f][NextDir(d)])[2]>>

EdgeSet == {EdgePlaces(f, d) : f \in Faces, d \in Dirs}

CornerSet == {CornerPlaces(f, d) : f \in Faces, d \in Dirs}

Rot(t) == <<t[2], t[3], t[1]>>

Swap(e) == <<e[2], e[1]>>

\* The glue is that of a cube: read from either side every edge piece is
\* the same two tiles and every corner piece the same three in the same
\* rotational order; there are 12 edge pieces and 8 corner pieces, each
\* read from each of its sides, and every tile but the six centres lies on
\* exactly one piece.
GlueIsACube ==
    /\ \A e \in EdgeSet : Swap(e) \in EdgeSet /\ e[1][1] # e[2][1]
    /\ \A t \in CornerSet :
        /\ Rot(t) \in CornerSet
        /\ Cardinality({t[1][1], t[2][1], t[3][1]}) = 3
    /\ Cardinality(EdgeSet) = 2 * 12
    /\ Cardinality(CornerSet) = 3 * 8
    /\ {e[1] : e \in EdgeSet} \cup {t[1] : t \in CornerSet}
        = {p \in Faces \X Idx \X Idx : <<p[2], p[3]>> # <<1, 1>>}

\* The colours the grids g show at the places of a piece.
At(g, p) == g[p[1]][p[2]][p[3]]

EdgeShows(g, e) == <<At(g, e[1]), At(g, e[2])>>

CornerShows(g, t) == <<At(g, t[1]), At(g, t[2]), At(g, t[3])>>

\* Two sides are opposite when neither is bound to the other.
OppositeSide ==
    [f \in Faces |->
        CHOOSE o \in Faces \ {f} : \A d \in Dirs : InitNbr[f][d].side # o]

OppositeColour ==
    [col \in Colours |->
        BaseColour[OppositeSide[CHOOSE f \in Faces : BaseColour[f] = col]]]

\* What the pieces show on the solved cube, read from every side.
SolvedEdges == {EdgeShows(SolvedSides, e) : e \in EdgeSet}

SolvedCorners == {CornerShows(SolvedSides, t) : t \in CornerSet}

\* Every turn of every side carries pieces to pieces: the tiles that come to
\* lie on a piece were the tiles of one piece before the turn, in the same
\* rotational order.  With this, what holds of the pieces of the solved cube
\* holds after any number of turns.
TurnsCarryPieces ==
    \A f \in Faces :
        \A g \in {r_right(Places, InitNbr, f), r_left(Places, InitNbr, f)} :
            /\ \A e \in EdgeSet : EdgeShows(g, e) \in EdgeSet
            /\ \A t \in CornerSet : CornerShows(g, t) \in CornerSet

\* C4: every state reached from the solved cube by quarter-turns and
\* reorientations is a possible cube under the glue of the 24 bindings of
\* Cube.__init__: every edge piece shows the two colours of an edge of the
\* solved cube (two distinct sides that are not opposite), every corner piece
\* the three colours of a corner of the solved cube in the same rotational
\* order, and no piece shows a colour twice or two opposite colours
\* (orange/red, green/blue, white/yellow).
C4_PossibleCube ==
    /\ nbr = InitNbr
    /\ GlueIsACube
    /\ TurnsCarryPieces
    /\ OppositeColour["ORANGE"] = "RED"
    /\ OppositeColour["GREEN"] = "BLUE"
    /\ OppositeColour["WHITE"] = "YELLOW"
    /\ \A e \in EdgeSet :
        LET shown == EdgeShows(sides, e)
        IN  /\ shown \in SolvedEdges
            /\ shown[1] # shown[2]
            /\ shown[1] # OppositeColour[shown[2]]
    /\ \A t \in CornerSet :
        LET shown == CornerShows(sides, t)
        IN  /\ shown \in SolvedCorners
            /\ \A i, j \in 1 .. 3 :
                i # j => shown[i] # shown[j] /\ shown[i] # OppositeColour[shown[j]]

\* C4's case: after three turns of sides that share edges, a reorientation
\* among them, some edge piece and some corner piece show colours other than
\* those of the sides they lie on.
C4_Witness ==
    /\ Len(hist) >= 3
    /\ Made \cap ReorientNames # {}
    /\ Cardinality(Made \cap MoveNames) >= 2
    /\ \E e \in EdgeSet :
        /\ EdgeShows(sides, e)[1] # BaseColour[e[1][1]]
        /\ EdgeShows(sides, e)[2] # BaseColour[e[2][1]]
    /\ \E t \in CornerSet :
        \A i \in 1 .. 3 : CornerShows(sides, t)[i] # BaseColour[t[i][1]]
\* The pairs of roles the claim names opposite, each with its two turns.
OppositeTurns ==
    ({"U", "U_"} \X {"D", "D_"}) \cup
    ({"L", "L_"} \X {"R", "R_"}) \cup
    ({"F", "F_"} \X {"B", "B_"})

\* C5: turns of opposite roles commute: for up/down, left/right and
\* front/back, in either direction each, whatever the grids hold and under
\* any layout the reorientations reach, A then B gives the same six grids as
\* B then A.
C5_OppositeCommute ==
    \A p \in OppositeTurns :
        Call(Call(Cur, p[1]), p[2]).sides = Call(Call(Cur, p[2]), p[1]).sides

\* C5's case: R was made on a hand-filled cube under a turned layout and
\* moved the marked tile; L_ from here moves nothing that R moved, and gives
\* what L_ then R give from the start.
C5_Witness ==
    /\ hist = <<"R">>
    /\ start.sides \in AnySides \ {SolvedSides}
    /\ start.layout # InitLayout
    /\ sides # start.sides
    /\ L_(Cur).sides = R(L_([Cur EXCEPT !.sides = start.sides])).sides

\* C6: rLeft and rRight are mutual inverses: from any reachable state, one
\* followed by the other gives back the same role-to-side mapping and leaves
\* every tile of the six grids as it was.
C6_ReorientInverse ==
    /\ rRight(rLeft(Cur)) = Cur
    /\ rLeft(rRight(Cur)) = Cur

\* C6's case: on a scrambled cube rRight was made and then rLeft, and the
\* layout is the one before the two.
C6_Witness ==
    /\ hist = <<"F", "rRight", "rLeft">>
    /\ sides # SolvedSides
    /\ layout = start.layout

\* C7: no quarter-turn and no mix(n) changes the layout: every role maps to
\* the same side after the call as before it.
C7_TurnsKeepLayout ==
    [][last'.op \in MoveNames \cup {"mix"} => layout' = layout]_vars

\* C7's case: mix(2) has run on a cube under a turned layout and changed the
\* grids.
C7_Witness ==
    /\ last.op = "mix"
    /\ last.n = 2
    /\ layout # InitLayout
    /\ sides # SolvedSides

\* C8: rLeft and rRight change only the layout: the 54 tiles and the 24
\* bindings stay, up and down stay, and left, back, right, front move as one
\* 4-cycle: after rLeft left has back's side, back has right's, right has
\* front's and front has left's; rRight is the opposite cycle.
C8_ReorientOnlyLayout ==
    [][/\ last'.op \in ReorientNames =>
            /\ sides' = sides
            /\ nbr' = nbr
            /\ layout'["up"] = layout["up"]
            /\ layout'["down"] = layout["down"]
       /\ last'.op = "rLeft" =>
            /\ layout'["left"] = layout["back"]
            /\ layout'["back"] = layout["right"]
            /\ layout'["right"] = layout["front"]
            /\ layout'["front"] = layout["left"]
       /\ last'.op = "rRight" =>
            /\ layout'["left"] = layout["front"]
            /\ layout'["front"] = layout["right"]
            /\ layout'["right"] = layout["back"]
            /\ layout'["back"] = layout["left"]
      ]_vars

\* C8's case: rLeft has run on a scrambled cube whose layout rRight had
\* turned before.
C8_Witness ==
    /\ last.op = "rLeft"
    /\ Len(hist) = 3
    /\ "rRight" \in Made
    /\ sides # SolvedSides

\* C9: a reorientation redirects the later turns: from any state rLeft then F
\* (or F_) gives the same grids and layout as L (or L_) then rLeft, rRight
\* then F (or F_) the same as R (or R_) then rRight, and U, U_, D, D_ commute
\* with both reorientations.
C9_ReorientRedirects ==
    /\ F(rLeft(Cur)) = rLeft(L(Cur))
    /\ F_(rLeft(Cur)) = rLeft(L_(Cur))
    /\ F(rRight(Cur)) = rRight(R(Cur))
    /\ F_(rRight(Cur)) = rRight(R_(Cur))
    /\ \A m \in {"U", "U_", "D", "D_"} :
        /\ Call(rLeft(Cur), m) = rLeft(Call(Cur, m))
        /\ Call(rRight(Cur), m) = rRight(Call(Cur, m))

\* C9's case: rLeft was made on a hand-filled cube; F from here moves the
\* marked tile, which F would not have moved before the rLeft, to where L
\* then rLeft bring it from the start.
C9_Witness ==
    /\ hist = <<"rLeft">>
    /\ start.sides \in AnySides \ {SolvedSides}
    /\ F(Cur).sides # sides
    /\ F([Cur EXCEPT !.layout = start.layout]).sides = sides
    /\ F(Cur) = rLeft(L([Cur EXCEPT !.layout = start.layout]))

\* C10: get_gs with a token outside top, left, bottom, right fails with a
\* typed invalid-argument error given to the caller: no default is returned,
\* the process goes on, and the grids and the layout are as before.
C10_TypedError ==
    (last.op = "get_gs" /\ last.token \notin Dirs) =>
        /\ last.got.kind = "invalid_argument"
        /\ proc = "running"
        /\ sides = CallAll([Cur EXCEPT !.sides = start.sides,
                                       !.layout = start.layout], hist).sides
        /\ layout = CallAll([Cur EXCEPT !.sides = start.sides,
                                        !.layout = start.layout], hist).layout
\* The reads and the writes of ev, by number, and those on the turned side's
\* own grid.
Reads(ev) == {i \in 1 .. Len(ev) : ev[i].act = "read"}

Writes(ev) == {i \in 1 .. Len(ev) : ev[i].act = "write"}

OwnPart(ev) == {i \in 1 .. Len(ev) : ev[i].at.side = ev[1].at.side}

NbrPart(ev) == (1 .. Len(ev)) \ OwnPart(ev)

\* All reads of the part before all its writes.
ReadsFirst(ev, part) ==
    \A i \in part \cap Reads(ev), j \in part \cap Writes(ev) : i < j

\* The rotations are the reads and writes listed for them: made in that
\* order on grids whose tiles are all different they give what r_left and
\* r_right give.
EventsAreTheRotations ==
    \A s \in Faces :
        /\ Exec(Places, r_left_events(InitNbr, s)) = r_left(Places, InitNbr, s)
        /\ Exec(Places, r_right_events(InitNbr, s)) = r_right(Places, InitNbr, s)

\* C11 as stated: within one rotation all reads come before all writes: the
\* four reads of the own edges before the first own write, the four reads of
\* the neighbour strips before the first neighbour write, and no read at all
\* after a write of the same rotation.
C11_ReadAllThenWriteAll ==
    last.op \in MoveNames =>
        /\ ReadsFirst(last.events, OwnPart(last.events))
        /\ ReadsFirst(last.events, NbrPart(last.events))
        /\ ReadsFirst(last.events, 1 .. Len(last.events))

\* C11 amended: within one rotation each of the four own edges and each of
\* the four bound neighbour strips is read once and written once, the read
\* before the write; every write stores what an earlier read of the same
\* rotation returned; and the own-grid part of r_left makes its four reads
\* before its first write.  (The own-grid part of r_right and the neighbour
\* parts of both read after writes to other edges.)
C11_EachReadBeforeItsWrite ==
    /\ EventsAreTheRotations
    /\ last.op \in MoveNames =>
        LET ev == last.events
        IN  /\ Cardinality({ev[i].at : i \in 1 .. Len(ev)}) = 8
            /\ \A i \in 1 .. Len(ev) :
                /\ Cardinality({j \in Reads(ev) : ev[j].at = ev[i].at}) = 1
                /\ Cardinality({j \in Writes(ev) : ev[j].at = ev[i].at}) = 1
            /\ \A i \in Reads(ev), j \in Writes(ev) :
                ev[i].at = ev[j].at => i < j
            /\ \A j \in Writes(ev) : ev[j].from \in Reads(ev) /\ ev[j].from < j
            /\ TurnOf(last.op)[2] = "r_left" => ReadsFirst(ev, OwnPart(ev))

\* C11's case: F (r_right) was made under a turned layout and changed the
\* grids, reading in both parts after it had written.
C11_Witness ==
    /\ last.op = "F"
    /\ layout # InitLayout
    /\ sides # SolvedSides
    /\ ~ReadsFirst(last.events, OwnPart(last.events))
    /\ ~ReadsFirst(last.events, NbrPart(last.events))

\* The scenario U, R, U_, R_: the grids differ from the solved ones, hold
\* nine tiles of each colour, and R, U, R_, U_ after it solves them.
URScenario ==
    LET c == CallAll(NewCube, <<"U", "R", "U_", "R_">>)
    IN  /\ c.sides # SolvedSides
        /\ \A col \in Colours : Count(c.sides, col) = 9
        /\ Undo(<<"U", "R", "U_", "R_">>) = <<"R", "U", "R_", "U_">>
        /\ CallAll(c, <<"R", "U", "R_", "U_">>).sides = SolvedSides

\* C12: after any sequence of quarter-turns m1..mk made on the solved cube,
\* k from 1 to MaxScramble, the named inverses made in reverse order (that of
\* mk first) give back the solved grids, every side uniform in its base
\* colour; so for U, R, U_, R_, which leaves the grids unsolved.
C12_ScrambleUndone ==
    /\ URScenario
    /\ (replay.on /\ replay.todo = <<>>) =>
        /\ sides = SolvedSides
        /\ \A f \in Faces : Shown(sides, f) = {BaseColour[f]}
    /\ (~replay.on /\ Len(hist) <= MaxSteps) =>
        CallAll(Cur, Undo(hist)).sides = SolvedSides

\* C12's case: a scramble of 50 turns was recorded and undone, the last turn
\* of the replay being the inverse of the first of the record, and the grids
\* were not solved before that last turn.
C12_Witness ==
    /\ Len(hist) = 50
    /\ replay.on
    /\ replay.todo = <<>>
    /\ last.op = Inverse(hist[1])
    /\ Call(Cur, hist[1]).sides # SolvedSides
    /\ sides = SolvedSides
\* C13: Cube() gives the solved cube: six distinct sides, side i filled with
\* its base colour (0 orange, 1 red, 2 green, 3 blue, 4 white, 5 yellow), the
\* layout left = 0, right = 1, back = 2, front = 3, down = 4, up = 5, and each
\* of the four neighbour bindings of every side set to accessors of another
\* side.
C13_ConstructedSolved ==
    (hist = <<>> /\ last = NoCall) =>
        /\ DOMAIN sides = 0 .. 5
        /\ \A r \in Idx, c \in Idx :
            /\ sides[0][r][c] = "ORANGE"
            /\ sides[1][r][c] = "RED"
            /\ sides[2][r][c] = "GREEN"
            /\ sides[3][r][c] = "BLUE"
            /\ sides[4][r][c] = "WHITE"
            /\ sides[5][r][c] = "YELLOW"
        /\ Cardinality({sides[i] : i \in DOMAIN sides}) = 6
        /\ DOMAIN layout = Roles
        /\ layout["left"] = 0
        /\ layout["right"] = 1
        /\ layout["back"] = 2
        /\ layout["front"] = 3
        /\ layout["down"] = 4
        /\ layout["up"] = 5
        /\ \A i \in Faces :
            /\ DOMAIN nbr[i] = Dirs
            /\ \A d \in Dirs :
                /\ nbr[i][d].kind = "accessors"
                /\ nbr[i][d].side \in Faces \ {i}
                /\ nbr[i][d].edge \in Dirs

\* C13's case: the cube as the constructor returned it, before any call.
C13_Witness ==
    /\ hist = <<>>
    /\ last = NoCall
    /\ proc = "running"
    /\ [sides |-> sides, layout |-> layout] = start
    /\ Cur = NewCube
\* C14: mix is deterministic in its inputs, the cube it is called on and the
\* move count: the grids a mix(n) call leaves are the grids every mix(n) call
\* on that cube leaves, whatever the random source chose.
C14_MixDeterministic ==
    [][(last'.op = "mix") =>
        \A choices \in [1 .. last'.n -> MoveNames] :
            mix(Cur, choices).sides = sides']_vars
\* The grid abc / def / ghi.
Lettered ==
    [r \in Idx |-> [c \in Idx |->
        CASE r = 0 -> (CASE c = 0 -> "a" [] c = 1 -> "b" [] c = 2 -> "c")
          [] r = 1 -> (CASE c = 0 -> "d" [] c = 1 -> "e" [] c = 2 -> "f")
          [] r = 2 -> (CASE c = 0 -> "g" [] c = 1 -> "h" [] c = 2 -> "i")]]

Rows(grid) == <<grid[0][0], grid[0][1], grid[0][2]>> \o
    <<grid[1][0], grid[1][1], grid[1][2]>> \o
    <<grid[2][0], grid[2][1], grid[2][2]>>

\* The position in the events ev of the first event e.
FirstAt(ev, e) == CHOOSE i \in 1 .. Len(ev) : ev[i] = e /\ \A j \in 1 .. i - 1 : ev[j] # e

\* On grids that hold their own places, and on abc / def / ghi, the rotations
\* turn the grid of their side a quarter; r_right reads the top row after it
\* wrote the left column.
OwnGridTurnsPlaces ==
    \A s \in Faces :
        LET rr == r_right(Places, InitNbr, s)[s]
            rl == r_left(Places, InitNbr, s)[s]
        IN  /\ \A r \in Idx, c \in Idx :
                /\ rr[r][c] = <<s, 2 - c, r>>
                /\ rl[r][c] = <<s, c, 2 - r>>
            /\ Rows(r_right([f \in Faces |-> Lettered], InitNbr, s)[s])
                = <<"g", "d", "a", "h", "e", "b", "i", "f", "c">>
            /\ Rows(r_left([f \in Faces |-> Lettered], InitNbr, s)[s])
                = <<"c", "f", "i", "b", "e", "h", "a", "d", "g">>
            /\ FirstAt(r_right_events(InitNbr, s), Wr(Self(s, "left"), 2))
                < FirstAt(r_right_events(InitNbr, s), Rd(Self(s, "top")))

\* C15: whatever the grids hold, r_right on side s leaves new[r][c] =
\* old[2-c][r] on the grid of s (abc / def / ghi becomes gda / heb / ifc) and
\* r_left leaves new[r][c] = old[c][2-r]; r_right reads the top row after it
\* wrote the left column.
C15_OwnGridQuarterTurn ==
    /\ OwnGridTurnsPlaces
    /\ \A s \in Faces :
        LET rr == r_right(sides, nbr, s)[s]
            rl == r_left(sides, nbr, s)[s]
        IN  \A r \in Idx, c \in Idx :
                /\ rr[r][c] = sides[s][2 - c][r]
                /\ rl[r][c] = sides[s][c][2 - r]

\* C15's case: U, which is r_right on side 5, was made on grids whose only
\* marked tile was at row 0, column 0 of side 5, and the mark is at row 0,
\* column 2.
C15_Witness ==
    /\ hist = <<"U">>
    /\ start.layout["up"] = 5
    /\ start.sides = OneHot(5, 0, 0)
    /\ sides[5][0][2] = "RED"
    /\ sides[5][0][0] = "WHITE"
\* The strips the four bindings of side s read on the grids g.
Strips(g, n, s) == [d \in Dirs |-> Getter(g, n[s][d])]

\* The strips after r_right are those before it moved left to top, top to
\* right, right to bottom, bottom to left, tile i to tile i.
CycledRight(old, new) ==
    /\ new.top = old.left
    /\ new.right = old.top
    /\ new.bottom = old.right
    /\ new.left = old.bottom

\* After r_left: top to left, left to bottom, bottom to right, right to top.
CycledLeft(old, new) ==
    /\ new.left = old.top
    /\ new.bottom = old.left
    /\ new.right = old.bottom
    /\ new.top = old.right

\* On grids that hold their own places the bound strips go round by place.
StripsCyclePlaces ==
    \A s \in Faces :
        /\ CycledRight(Strips(Places, InitNbr, s),
                       Strips(r_right(Places, InitNbr, s), InitNbr, s))
        /\ CycledLeft(Strips(Places, InitNbr, s),
                      Strips(r_left(Places, InitNbr, s), InitNbr, s))
        /\ \A d \in Dirs : DOMAIN Strips(Places, InitNbr, s)[d] = Idx

\* C16: whatever the grids hold, after r_right on side s the strip bound as
\* top holds what the strip bound as left held, right what top held, bottom
\* what right held, left what bottom held; after r_left, left holds what top
\* held, bottom what left held, right what bottom held, top what right held;
\* tile i of the source is tile i of the target.
C16_NeighbourStripsCycle ==
    /\ StripsCyclePlaces
    /\ \A s \in Faces :
        /\ CycledRight(Strips(sides, nbr, s), Strips(r_right(sides, nbr, s), nbr, s))
        /\ CycledLeft(Strips(sides, nbr, s), Strips(r_left(sides, nbr, s), nbr, s))

\* A strip whose first tile is the marked one.
FirstMarked == [i \in Idx |-> IF i = 0 THEN "RED" ELSE "WHITE"]

\* C16's case: U, which is r_right on side 5, was made on grids whose only
\* marked tile was the first of the strip bound as left of side 5, and the mark
\* is the first tile of the strip bound as top.
C16_Witness ==
    /\ hist = <<"U">>
    /\ start.layout["up"] = 5
    /\ Getter(start.sides, nbr[5].left) = FirstMarked
    /\ Getter(sides, nbr[5].top) = FirstMarked
    /\ Getter(sides, nbr[5].left) = [i \in Idx |-> "WHITE"]
AllPlaces == Faces \X Idx \X Idx

\* The places a strip of places holds.
PlacesOf(strip) == {strip[i] : i \in Idx}

\* The places a turn of side s may change: the 8 places of s round its centre
\* and the places of the four strips bound to s.
Affected ==
    [s \in Faces |->
        ({<<s, r, c>> : r \in Idx, c \in Idx} \ {<<s, 1, 1>>})
        \cup UNION {PlacesOf(Getter(Places, InitNbr[s][d])) : d \in Dirs}]

\* The places where the grids g and h differ.
Changed(g, h) == {p \in AllPlaces : At(g, p) # At(h, p)}

\* The affected places are 20: 8 on the turned side, 3 on each side bound to
\* it, none on the opposite side; on grids that hold their own places each
\* rotation changes those 20 and no other.
TwentyPlaces ==
    \A s \in Faces :
        /\ Cardinality(Affected[s]) = 20
        /\ Cardinality({p \in Affected[s] : p[1] = s}) = 8
        /\ <<s, 1, 1>> \notin Affected[s]
        /\ {p \in Affected[s] : p[1] = OppositeSide[s]} = {}
        /\ \A f \in Faces \ {s, OppositeSide[s]} :
            /\ Cardinality({p \in Affected[s] : p[1] = f}) = 3
            /\ \E d \in Dirs :
                {p \in Affected[s] : p[1] = f} = PlacesOf(Getter(Places, Own(f, d)))
        /\ Changed(Places, r_right(Places, InitNbr, s)) = Affected[s]
        /\ Changed(Places, r_left(Places, InitNbr, s)) = Affected[s]

\* C17: whatever the grids hold, a quarter-turn changes tiles only at the 20
\* affected places of the side it turns: the 8 round its centre and the 3 of
\* each bound strip; the centre of the turned side, the 9 tiles of the
\* opposite side and the 6 tiles of each neighbour off the bound edge stay.
C17_AtMostTwentyCells ==
    /\ nbr = InitNbr
    /\ TwentyPlaces
    /\ \A m \in MoveNames :
        LET s == layout[TurnOf(m)[1]]
            after == Call(Cur, m).sides
        IN  /\ Changed(sides, after) \subseteq Affected[s]
            /\ Cardinality(Changed(sides, after)) <= 20
            /\ after[OppositeSide[s]] = sides[OppositeSide[s]]
            /\ after[s][1][1] = sides[s][1][1]

\* C17's case: U turned side 5 on grids with one marked tile on a strip bound
\* to it; the tiles changed, all of them at affected places of side 5, some
\* on side 5's neighbour, and no tile of side 4 changed.
C17_Witness ==
    /\ hist = <<"U">>
    /\ start.layout["up"] = 5
    /\ start.sides = OneHot(0, 0, 2)
    /\ Changed(start.sides, sides) # {}
    /\ Changed(start.sides, sides) \subseteq Affected[5]
    /\ sides[0][0][2] = "WHITE"
    /\ sides[4] = start.sides[4]
\* A strip of three different colours, and a strip of three marks.
ThreeColours == [i \in Idx |-> CASE i = 0 -> "RED" [] i = 1 -> "GREEN" [] i = 2 -> "BLUE"]

Marks == [i \in Idx |-> <<"mark", i>>]

\* The places of edge d of side f in the canonical order: clockwise round the
\* border, each edge beginning at the corner where the one before it ended.
Canonical(f, d) ==
    CASE d = "top" -> [i \in Idx |-> <<f, 0, i>>]
      [] d = "right" -> [i \in Idx |-> <<f, i, 2>>]
      [] d = "bottom" -> [i \in Idx |-> <<f, 2, 2 - i>>]
      [] d = "left" -> [i \in Idx |-> <<f, 2 - i, 0>>]

\* The reader of every edge reads the canonical places in order; the writer
\* puts tile i of the strip at canonical place i and writes nowhere else.
SameCanonicalOrder ==
    \A f \in Faces, d \in Dirs :
        /\ Getter(Places, Own(f, d)) = Canonical(f, d)
        /\ \A i \in Idx :
            At(Setter(Places, Own(f, d), Marks), Canonical(f, d)[i]) = Marks[i]
        /\ Changed(Places, Setter(Places, Own(f, d), Marks))
            = PlacesOf(Canonical(f, d))
        /\ Canonical(f, d)[2] = Canonical(f, NextDir(d))[0]

\* C18: reader and writer of each edge use one cell order (top: row 0 left to
\* right, right: column 2 top to bottom, bottom: row 2 right to left, left:
\* column 0 bottom to top, clockwise round the border); so on any grid
\* writing a strip to edge d and reading edge d gives the strip, and writing
\* back what was read from edge d leaves the grid as it was.
C18_EdgeOrderRoundTrip ==
    /\ SameCanonicalOrder
    /\ \A f \in Faces, d \in Dirs :
        /\ Getter(Setter(sides, Own(f, d), ThreeColours), Own(f, d)) = ThreeColours
        /\ Setter(sides, Own(f, d), Getter(sides, Own(f, d))) = sides
        /\ \A e \in Dirs :
            Getter(Setter(sides, Own(f, d), Getter(sides, Own(f, e))), Own(f, d))
                = Getter(sides, Own(f, e))

\* C18's case: after a turn that moved the one marked tile, a strip written
\* to the bottom edge of a side lies reversed in row 2 and is read back as
\* written, and the strip read from the left edge holds the mark at the place
\* the canonical order gives it.
C18_Witness ==
    /\ hist = <<"U">>
    /\ start.sides = OneHot(5, 0, 0)
    /\ sides[5][0][2] = "RED"
    /\ get_right(sides[5]) = FirstMarked
    /\ _set_bottom(sides[5], ThreeColours)[2] = Reversed(ThreeColours)
    /\ get_bottom(_set_bottom(sides[5], ThreeColours)) = ThreeColours
    /\ _set_right(sides[5], get_right(sides[5])) = sides[5]
\* The pairs of sides that are opposite: no edge of one is bound to the other.
OppositePairs == {{f, OppositeSide[f]} : f \in Faces}

\* C19: in every state reached by turns and reorientations the layout maps the
\* six roles one-to-one onto the six sides, up is side 5 (yellow) and down is
\* side 4 (white), and the sides of left and right, and those of front and
\* back, are the opposite pairs {0, 1} and {2, 3} one way or the other, never
\* two sides that share a bound edge.
C19_LayoutBijection ==
    /\ OppositePairs = {{0, 1}, {2, 3}, {4, 5}}
    /\ DOMAIN layout = Roles
    /\ {layout[r] : r \in Roles} = Faces
    /\ \A r1 \in Roles, r2 \in Roles : layout[r1] = layout[r2] => r1 = r2
    /\ layout["up"] = 5
    /\ BaseColour[layout["up"]] = "YELLOW"
    /\ layout["down"] = 4
    /\ BaseColour[layout["down"]] = "WHITE"
    /\ {{layout["left"], layout["right"]}, {layout["front"], layout["back"]}}
        = {{0, 1}, {2, 3}}
    /\ \A d \in Dirs :
        /\ nbr[layout["left"]][d].side # layout["right"]
        /\ nbr[layout["front"]][d].side # layout["back"]

\* C19's case: after a reorientation and a turn, left and right are sides 2
\* and 3 or 3 and 2, and front and back sides 0 and 1 or 1 and 0.
C19_Witness ==
    /\ Len(hist) >= 2
    /\ Made \cap ReorientNames # {}
    /\ Made \cap MoveNames # {}
    /\ {layout["left"], layout["right"]} = {2, 3}
    /\ {layout["front"], layout["back"]} = {0, 1}

\* On grids that hold their own places no writer and no rotation of any side
\* leaves anything but its own place at a centre.
NoCentreWritten ==
    \A s \in Faces, f \in Faces :
        /\ r_right(Places, InitNbr, s)[f][1][1] = <<f, 1, 1>>
        /\ r_left(Places, InitNbr, s)[f][1][1] = <<f, 1, 1>>
        /\ \A d \in Dirs : Setter(Places, Own(s, d), Marks)[f][1][1] = <<f, 1, 1>>

\* C20: in every state reached by turns and reorientations the centre tile
\* (row 1, column 1) of each side is the base colour the constructor gave the
\* side; no rotation and no writer writes a centre.
C20_CentresFixed ==
    /\ NoCentreWritten
    /\ \A f \in Faces :
        /\ sides[f][1][1] = BaseColour[f]
        /\ sides[f][1][1] = start.sides[f][1][1]

\* C20's case: three turns were made, every side shows a colour other than
\* its base colour somewhere, and the centres are the base colours.
C20_Witness ==
    /\ Len(hist) = 3
    /\ Made \subseteq MoveNames
    /\ \A f \in Faces : Shown(sides, f) # {BaseColour[f]}
    /\ \A f \in Faces : sides[f][1][1] = BaseColour[f]
====
